---- MODULE Spec2Model ----
(***************************************************************************)
(* Model of scripts/importer.py: one run of main().  Text values (URLs,    *)
(* titles, keywords, paths) are sequences of tokens; an optional value     *)
(* (a Python None, a missing HTML attribute, an SQL NULL) is a sequence of *)
(* length 0 or 1.  A dict is the sequence of its <<key, value>> items in   *)
(* insertion order.                                                        *)
(***************************************************************************)
EXTENDS Integers, Sequences, FiniteSets, TLC

VARIABLES pc, argv, args, path, root, probed, bookmarks, keywords, searchengines,
          html, tags, idx, fileOpen, db, rows1, rows2, dbOpen, out, error

vars == <<pc, argv, args, path, root, probed, bookmarks, keywords, searchengines,
          html, tags, idx, fileOpen, db, rows1, rows2, dbOpen, out, error>>

(* ------------------------------ bounds -------------------------------- *)
MaxTags == 2
MaxUrlLen == 4
MaxBookmarkRows == 2
MaxGlob == 2

(* ------------------------------ strings ------------------------------- *)
None == <<>>
Some(v) == <<v>>
NoArg == "None"

IsPrefix(p, s) == Len(p) <= Len(s) /\ SubSeq(s, 1, Len(p)) = p

Contains(s, sub) ==
    \E i \in 1..(Len(s) - Len(sub) + 1) : SubSeq(s, i, i + Len(sub) - 1) = sub

RECURSIVE Replace(_, _, _)
Replace(s, old, new) ==
    IF s = <<>> THEN <<>>
    ELSE IF IsPrefix(old, s)
         THEN new \o Replace(SubSeq(s, Len(old) + 1, Len(s)), old, new)
         ELSE <<Head(s)>> \o Replace(Tail(s), old, new)

Marker == <<"%", "s">>
Placeholder == <<"{", "}">>

dumb_search_escape(url) ==
    Replace(Replace(url, <<"{">>, <<"{", "{">>), <<"}">>, <<"}", "}">>)

SearchTemplate(url) == Replace(dumb_search_escape(url), Marker, Placeholder)

(* ------------------------------- dicts -------------------------------- *)
Keys(d) == {d[i][1] : i \in 1..Len(d)}
HasKey(d, k) == \E i \in 1..Len(d) : d[i][1] = k
Get(d, k) == d[CHOOSE i \in 1..Len(d) : d[i][1] = k][2]

SetItem(d, k, v) ==
    IF HasKey(d, k)
    THEN [i \in 1..Len(d) |-> IF d[i][1] = k THEN <<k, v>> ELSE d[i]]
    ELSE Append(d, <<k, v>>)

\* Variant: the guard `if key not in dict` left out.
SetLast(d, k, v) == SetItem(d, k, v)

SetDefault(d, k, v) == IF HasKey(d, k) THEN d ELSE SetItem(d, k, v)

(* --------------------------- main, get_args --------------------------- *)
NetscapeBrowsers == {"ie", "chromium"}
MozBrowsers == {"firefox", "palemoon", "seamonkey"}
Formats == {"netscape", "mozplace"}

browser_default_input_format ==
    [b \in NetscapeBrowsers \cup MozBrowsers |->
        IF b \in NetscapeBrowsers THEN "netscape" ELSE "mozplace"]

PathArg == <<"arg">>

ParsedArgs ==
    [browser : NetscapeBrowsers \cup MozBrowsers \cup {NoArg},
     input_format : Formats \cup {NoArg},
     bookmark_output : BOOLEAN, quickmark_output : BOOLEAN,
     search_output : BOOLEAN, oldconfig : BOOLEAN,
     import_bookmarks : BOOLEAN, import_keywords : BOOLEAN,
     bookmarks : {PathArg}]

MustExit(a) == a.input_format = NoArg /\ a.browser = NoArg

AssumeFormat(a) ==
    IF a.input_format = NoArg
    THEN [a EXCEPT !.input_format = browser_default_input_format[a.browser]]
    ELSE a

\* Variant: the bookmark format as the default output.
DefaultOutputBookmark(a) ==
    IF ~a.search_output /\ ~(a.bookmark_output \/ a.quickmark_output)
    THEN [a EXCEPT !.bookmark_output = TRUE]
    ELSE a

DefaultOutput(a) ==
    IF ~a.search_output /\ ~(a.bookmark_output \/ a.quickmark_output)
    THEN [a EXCEPT !.quickmark_output = TRUE]
    ELSE a

DefaultInclusion(a) ==
    IF ~a.search_output /\ ~(a.import_bookmarks \/ a.import_keywords)
    THEN [a EXCEPT !.import_bookmarks = TRUE, !.import_keywords = TRUE]
    ELSE a

get_args(a) == DefaultInclusion(DefaultOutput(AssumeFormat(a)))

Fail(e) == pc' = "failed" /\ error' = e

GetArgs ==
    /\ pc = "get_args"
    /\ IF MustExit(args)
       THEN Fail("SystemExit") /\ UNCHANGED args
       ELSE args' = get_args(args) /\ pc' = "construct" /\ UNCHANGED error
    /\ UNCHANGED <<argv, path, root, probed, bookmarks, keywords,
                   searchengines, html, tags, idx, fileOpen, db, rows1, rows2,
                   dbOpen, out>>

(* ------------------- Importer.__init__, profile paths ----------------- *)
mozroots ==
    [b \in MozBrowsers |->
        CASE b = "firefox" -> <<"/", ".", "mozilla", "/", "firefox">>
          [] b = "seamonkey" -> <<"/", ".", "mozilla", "/", "seamonkey">>
          [] b = "palemoon" ->
                <<"/", ".", "moonchild productions", "/", "pale moon">>]

Dotless(s) == Replace(s, <<".">>, <<>>)

Platforms == {"win32", "linux", "darwin", "java"}
os_name(platform) ==
    CASE platform = "win32" -> "nt"
      [] platform \in {"linux", "darwin"} -> "posix"
      [] OTHER -> "java"

Library == <<"HOME", "/", "Library">>
AppSupport(browser) ==
    Library \o <<"/", "Application Support">> \o Dotless(mozroots[browser])
SecondCandidate(browser) == Library \o Dotless(mozroots[browser])

\* The value of the local `root` when the glob pattern is built.
ProfileRoot(browser, platform, exists) ==
    IF os_name(platform) = "nt"
    THEN Some(<<"APPDATA">> \o Dotless(mozroots[browser]))
    ELSE IF os_name(platform) = "posix"
         THEN IF platform = "darwin"
              THEN IF exists THEN Some(AppSupport(browser)) ELSE Some(Library)
              ELSE Some(<<"HOME">> \o mozroots[browser])
         ELSE None

normpath(p, platform) ==
    IF os_name(platform) = "nt" THEN Replace(p, <<"/">>, <<"\\">>) ELSE p

ProfileNames == <<"a.", "b.", "c.", "d.">>
GlobMatches(r, fragment, n) ==
    [j \in 1..n |-> r \o <<"/", ProfileNames[j]>> \o fragment]

NotProbed == [platform |-> NoArg, exists |-> NoArg, matches |-> -1]

\* Variant: an empty glob result falls back to the path argument.
MozGuessLenient(platform, exists, n) ==
    LET r == ProfileRoot(args.browser, platform, exists)
    IN  /\ root' = r
        /\ IF r = None
           THEN /\ Fail("TypeError")
                /\ probed' = [NotProbed EXCEPT !.platform = platform]
                /\ path' = args.bookmarks
           ELSE /\ probed' = [platform |-> platform,
                              exists |-> IF platform = "darwin"
                                         THEN (IF exists THEN "yes" ELSE "no")
                                         ELSE NoArg,
                              matches |-> n]
                /\ path' = IF n = 0 THEN args.bookmarks
                           ELSE normpath(
                               GlobMatches(r[1], args.bookmarks, n)[1], platform)
                /\ pc' = "read"
                /\ UNCHANGED error

\* MozPlaceImporter._guess_profile_path with the environment's answers.
MozGuess(platform, exists, n) ==
    LET r == ProfileRoot(args.browser, platform, exists)
    IN  /\ root' = r
        /\ IF r = None
           THEN /\ Fail("TypeError")
                /\ probed' = [NotProbed EXCEPT !.platform = platform]
                /\ path' = args.bookmarks
           ELSE /\ probed' = [platform |-> platform,
                              exists |-> IF platform = "darwin"
                                         THEN (IF exists THEN "yes" ELSE "no")
                                         ELSE NoArg,
                              matches |-> n]
                /\ IF n = 0
                   THEN Fail("FileNotFoundError") /\ path' = args.bookmarks
                   ELSE /\ path' = normpath(
                               GlobMatches(r[1], args.bookmarks, n)[1], platform)
                        /\ pc' = "read"
                        /\ UNCHANGED error

Construct ==
    /\ pc = "construct"
    /\ bookmarks' = <<>> /\ keywords' = <<>> /\ searchengines' = <<>>
    /\ IF args.browser = NoArg
       THEN /\ path' = args.bookmarks
            /\ pc' = "read"
            /\ UNCHANGED <<root, probed, error>>
       ELSE IF args.input_format = "netscape"
            THEN /\ path' = args.bookmarks
                 /\ Fail("NotImplementedError")
                 /\ UNCHANGED <<root, probed>>
            ELSE IF args.browser \notin DOMAIN mozroots
                 THEN /\ path' = args.bookmarks
                      /\ Fail("KeyError")
                      /\ UNCHANGED <<root, probed>>
                 ELSE \E platform \in Platforms, exists \in BOOLEAN,
                         n \in 0..MaxGlob :
                         /\ (platform # "darwin" => exists)
                         /\ (ProfileRoot(args.browser, platform, exists) = None
                                => n = 0)
                         /\ MozGuess(platform, exists, n)
    /\ UNCHANGED <<argv, args, html, tags, idx, fileOpen, db, rows1, rows2, dbOpen,
                   out>>

(* -------------------------- NetscapeImporter -------------------------- *)
has_attr(tag, name) == tag[name] # None

\* Variant: the test for the marker left out.
ClassifyNoMarker(tag) ==
    IF has_attr(tag, "href")
    THEN IF has_attr(tag, "shortcuturl") THEN "keyword" ELSE "bookmark"
    ELSE "skip"

Classify(tag) ==
    IF has_attr(tag, "href")
    THEN IF has_attr(tag, "shortcuturl")
         THEN IF Contains(tag["href"][1], Marker) THEN "searchengine"
              ELSE "keyword"
         ELSE "bookmark"
    ELSE "skip"

NetscapeOpen ==
    /\ pc = "read" /\ args.input_format = "netscape"
    /\ \E ok \in BOOLEAN :
          IF ok
          THEN fileOpen' = TRUE /\ pc' = "parse" /\ UNCHANGED error
          ELSE Fail("OSError") /\ UNCHANGED fileOpen
    /\ UNCHANGED <<argv, args, path, root, probed, bookmarks, keywords, searchengines,
                   html, tags, idx, db, rows1, rows2, dbOpen, out>>

\* BeautifulSoup(f) inside the with block, then findAll('a').
NetscapeParse ==
    /\ pc = "parse"
    /\ fileOpen' = FALSE
    /\ \E ok \in BOOLEAN :
          IF ok
          THEN /\ tags' = html
               /\ idx' = 1
               /\ pc' = IF html = <<>> THEN "render" ELSE "tags"
               /\ UNCHANGED error
          ELSE Fail("UnicodeDecodeError") /\ UNCHANGED <<tags, idx>>
    /\ UNCHANGED <<argv, args, path, root, probed, bookmarks, keywords, searchengines,
                   html, db, rows1, rows2, dbOpen, out>>

NetscapeTag ==
    /\ pc = "tags"
    /\ LET tag == tags[idx]
           kind == Classify(tag)
       IN  /\ searchengines' =
                IF kind = "searchengine"
                THEN SetDefault(searchengines, tag["shortcuturl"][1],
                                SearchTemplate(tag["href"][1]))
                ELSE searchengines
           /\ keywords' =
                IF kind = "keyword"
                THEN SetDefault(keywords, tag["shortcuturl"][1], tag["href"][1])
                ELSE keywords
           /\ bookmarks' =
                IF kind = "bookmark"
                THEN SetDefault(bookmarks, tag["href"][1], tag["string"])
                ELSE bookmarks
    /\ idx' = idx + 1
    /\ pc' = IF idx = Len(tags) THEN "render" ELSE "tags"
    /\ UNCHANGED <<argv, args, path, root, probed, html, tags, fileOpen, db, rows1,
                   rows2, dbOpen, out, error>>

(* -------------------------- MozPlaceImporter -------------------------- *)
PlacePrefix == <<"place:">>

KeywordPlaces(d) == {k[2] : k \in d.moz_keywords}

\* Variant: the NOT IN (SELECT place_id FROM moz_keywords) condition left out.
Query1NoKeywordFilter(d) ==
    {<<d.moz_bookmarks[j].title, d.moz_places[d.moz_bookmarks[j].fk]>> :
        j \in {i \in 1..Len(d.moz_bookmarks) :
                 /\ d.moz_bookmarks[i].fk \in DOMAIN d.moz_places
                 /\ ~IsPrefix(<<"place:">>,
                              d.moz_places[d.moz_bookmarks[i].fk])}}

\* SELECT DISTINCT title, url: the set of selected <<title, url>> rows.
Query1(d) ==
    {<<d.moz_bookmarks[j].title, d.moz_places[d.moz_bookmarks[j].fk]>> :
        j \in {i \in 1..Len(d.moz_bookmarks) :
                 /\ d.moz_bookmarks[i].fk \in DOMAIN d.moz_places
                 /\ d.moz_bookmarks[i].fk \notin KeywordPlaces(d)
                 /\ ~IsPrefix(PlacePrefix,
                              d.moz_places[d.moz_bookmarks[i].fk])}}

\* The joined (keyword record, bookmark row) pairs of the second SELECT.
Query2Join(d) ==
    {<<k, j>> \in d.moz_keywords \X (1..Len(d.moz_bookmarks)) :
        /\ d.moz_bookmarks[j].fk \in DOMAIN d.moz_places
        /\ d.moz_bookmarks[j].fk = k[2]}

RECURSIVE Orderings(_)
Orderings(S) ==
    IF S = {} THEN {<<>>}
    ELSE UNION {{<<x>> \o o : o \in Orderings(S \ {x})} : x \in S}

\* One <<keyword, url>> row per joined pair, in the order the cursor yields.
Query2Rows(d) ==
    {[i \in 1..Len(o) |-> <<o[i][1][1], d.moz_places[o[i][1][2]]>>] :
        o \in Orderings(Query2Join(d))}

MozConnect ==
    /\ pc = "read" /\ args.input_format = "mozplace"
    /\ \E ok \in BOOLEAN :
          IF ok
          THEN dbOpen' = TRUE /\ pc' = "query1" /\ UNCHANGED error
          ELSE Fail("OperationalError") /\ UNCHANGED dbOpen
    /\ UNCHANGED <<argv, args, path, root, probed, bookmarks, keywords, searchengines,
                   html, tags, idx, fileOpen, db, rows1, rows2, out>>

MozQuery1 ==
    /\ pc = "query1"
    /\ \E ok \in BOOLEAN :
          IF ok
          THEN /\ rows1' \in Orderings(Query1(db))
               /\ idx' = 1
               /\ pc' = IF Query1(db) = {} THEN "query2" ELSE "rows1"
               /\ UNCHANGED error
          ELSE Fail("DatabaseError") /\ UNCHANGED <<rows1, idx>>
    /\ UNCHANGED <<argv, args, path, root, probed, bookmarks, keywords, searchengines,
                   html, tags, fileOpen, db, rows2, dbOpen, out>>

MozRow1 ==
    /\ pc = "rows1"
    /\ bookmarks' = SetItem(bookmarks, rows1[idx][2], rows1[idx][1])
    /\ idx' = idx + 1
    /\ pc' = IF idx = Len(rows1) THEN "query2" ELSE "rows1"
    /\ UNCHANGED <<argv, args, path, root, probed, keywords, searchengines, html,
                   tags, fileOpen, db, rows1, rows2, dbOpen, out, error>>

MozQuery2 ==
    /\ pc = "query2"
    /\ \E ok \in BOOLEAN :
          IF ok
          THEN /\ rows2' \in Query2Rows(db)
               /\ idx' = 1
               /\ pc' = IF Query2Join(db) = {} THEN "render" ELSE "rows2"
               /\ UNCHANGED error
          ELSE Fail("DatabaseError") /\ UNCHANGED <<rows2, idx>>
    /\ UNCHANGED <<argv, args, path, root, probed, bookmarks, keywords, searchengines,
                   html, tags, fileOpen, db, rows1, dbOpen, out>>

MozRow2 ==
    /\ pc = "rows2"
    /\ LET keyword == rows2[idx][1]
           url == rows2[idx][2]
       IN  IF Contains(url, Marker)
           THEN /\ searchengines' =
                     SetItem(searchengines, keyword, SearchTemplate(url))
                /\ UNCHANGED keywords
           ELSE /\ keywords' = SetItem(keywords, keyword, url)
                /\ UNCHANGED searchengines
    /\ idx' = idx + 1
    /\ pc' = IF idx = Len(rows2) THEN "render" ELSE "rows2"
    /\ UNCHANGED <<argv, args, path, root, probed, bookmarks, html, tags, fileOpen,
                   db, rows1, rows2, dbOpen, out, error>>

\* read() never closes the connection: only the collection of the unreferenced
\* connection object, whenever the runtime performs it, releases it.
Finalize ==
    /\ pc \in {"render", "done"}
    /\ dbOpen
    /\ dbOpen' = FALSE
    /\ UNCHANGED <<pc, argv, args, path, root, probed, bookmarks, keywords,
                   searchengines, html, tags, idx, fileOpen, db, rows1, rows2,
                   out, error>>

(* ------------------------------ renderers ----------------------------- *)
NoneText == <<"N", "o", "n", "e">>
str(v) == IF v = None THEN NoneText ELSE v[1]

print_config_py(se) ==
    [i \in 1..Len(se) |-> <<"config_py", se[i][1], se[i][2]>>]

print_qutebrowser_conf(se) ==
    [i \in 1..Len(se) |-> <<"conf", se[i][1], se[i][2]>>]

print_bookmarks(b, k, include_bookmarks, include_keywords) ==
    (IF include_bookmarks
     THEN [i \in 1..Len(b) |-> <<"print", b[i][1], str(b[i][2])>>]
     ELSE <<>>)
    \o (IF include_keywords
        THEN [i \in 1..Len(k) |-> <<"print", k[i][2], k[i][1]>>]
        ELSE <<>>)

print_quickmarks(b, k, include_bookmarks, include_keywords) ==
    (IF include_bookmarks
     THEN [i \in 1..Len(b) |-> <<"print", str(b[i][2]), b[i][1]>>]
     ELSE <<>>)
    \o (IF include_keywords
        THEN [i \in 1..Len(k) |-> <<"print", k[i][1], k[i][2]>>]
        ELSE <<>>)

Rendered(a, b, k, se) ==
    IF a.bookmark_output
    THEN print_bookmarks(b, k, a.import_bookmarks, a.import_keywords)
    ELSE IF a.quickmark_output
         THEN print_quickmarks(b, k, a.import_bookmarks, a.import_keywords)
         ELSE IF a.search_output
              THEN IF a.oldconfig THEN print_qutebrowser_conf(se)
                   ELSE print_config_py(se)
              ELSE <<>>

Render ==
    /\ pc = "render"
    /\ out' = Rendered(args, bookmarks, keywords, searchengines)
    /\ pc' = "done"
    /\ UNCHANGED <<argv, args, path, root, probed, bookmarks, keywords, searchengines,
                   html, tags, idx, fileOpen, db, rows1, rows2, dbOpen, error>>

(* ------------------------- inputs and behaviours ---------------------- *)
Anchor(href, shortcuturl, string) ==
    [href |-> href, shortcuturl |-> shortcuturl, string |-> string]

Hrefs == {<<"a">>, <<>>, <<"a", "%", "s">>, <<"{", "%", "s", "}">>}
Shortcuts == {<<"g">>, <<"k">>}
Titles == {<<"A">>, <<"B">>}

Anchors ==
    {Anchor(h, s, t) : h \in {None} \cup {Some(u) : u \in Hrefs},
                       s \in {None} \cup {Some(k) : k \in Shortcuts},
                       t \in {Some(x) : x \in Titles}}

RECURSIVE SeqsUpTo(_, _)
SeqsUpTo(S, n) ==
    IF n = 0 THEN {<<>>}
    ELSE LET shorter == SeqsUpTo(S, n - 1)
         IN  shorter \cup {Append(q, x) : q \in shorter, x \in S}

Alphabet == {"%", "s", "{", "}", "a"}

\* moz_places.url is unique per place; a bookmark row of a folder or a
\* separator references no place.
PlaceIds == {1, 2}
NoPlace == 0
PlaceUrls == {<<"a">>, <<"a", "%", "s">>, <<"place:", "a">>}

Stores ==
    [moz_places : {f \in [PlaceIds -> PlaceUrls] :
                     \A p, q \in PlaceIds : f[p] = f[q] => p = q},
     moz_bookmarks : SeqsUpTo([fk : PlaceIds \cup {NoPlace},
                               title : {Some(x) : x \in Titles}],
                              MaxBookmarkRows),
     moz_keywords : SUBSET (Shortcuts \X PlaceIds)]

SampleHtml ==
    <<Anchor(Some(<<"a">>), None, Some(<<"A">>)),
      Anchor(Some(<<"a">>), Some(<<"k">>), None),
      Anchor(Some(<<"a", "%", "s">>), Some(<<"g">>), Some(<<"B">>)),
      Anchor(None, None, Some(<<"B">>))>>

SampleStore ==
    [moz_places |-> (1 :> <<"a">>) @@ (2 :> <<"a", "%", "s">>),
     moz_bookmarks |-> <<[fk |-> 1, title |-> Some(<<"A">>)],
                         [fk |-> 2, title |-> Some(<<"B">>)]>>,
     moz_keywords |-> {<<<<"g">>, 2>>}]

InitWith(argset, htmlset, storeset) ==
    /\ pc = "get_args"
    /\ argv \in argset
    /\ args = argv
    /\ html \in htmlset
    /\ db \in storeset
    /\ path = None /\ root = None /\ probed = NotProbed
    /\ bookmarks = <<>> /\ keywords = <<>> /\ searchengines = <<>>
    /\ tags = <<>> /\ idx = 1 /\ rows1 = <<>> /\ rows2 = <<>>
    /\ fileOpen = FALSE /\ dbOpen = FALSE
    /\ out = <<>> /\ error = NoArg

\* Any command line, on a fixed bookmark file and a fixed store.
Init == InitWith(ParsedArgs, {SampleHtml}, {SampleStore})

Next ==
    \/ GetArgs \/ Construct
    \/ NetscapeOpen \/ NetscapeParse \/ NetscapeTag
    \/ MozConnect \/ MozQuery1 \/ MozRow1 \/ MozQuery2 \/ MozRow2 \/ Finalize
    \/ Render

Spec == Init /\ [][Next]_vars

\* "-i netscape -b [-B] [-K] FILE" on any bookmark file of at most MaxTags anchors.
NetscapeArgs ==
    {a \in ParsedArgs :
        /\ a.browser = NoArg /\ a.input_format = "netscape"
        /\ a.bookmark_output /\ ~a.quickmark_output /\ ~a.search_output
        /\ ~a.oldconfig}

InitNetscape == InitWith(NetscapeArgs, SeqsUpTo(Anchors, MaxTags), {SampleStore})

NextNetscape ==
    GetArgs \/ Construct \/ NetscapeOpen \/ NetscapeParse \/ NetscapeTag \/ Render

SpecNetscape == InitNetscape /\ [][NextNetscape]_vars

\* "-i netscape -s FILE" on a file of one anchor with shortcut g and any href of
\* at most MaxUrlLen characters.
TemplateArgs ==
    {a \in ParsedArgs :
        /\ a.browser = NoArg /\ a.input_format = "netscape"
        /\ a.search_output /\ ~a.bookmark_output /\ ~a.quickmark_output
        /\ ~a.oldconfig /\ ~a.import_bookmarks /\ ~a.import_keywords}

InitTemplate ==
    InitWith(TemplateArgs,
             {<<Anchor(Some(u), Some(<<"g">>), Some(<<"A">>))>> :
                 u \in SeqsUpTo(Alphabet, MaxUrlLen)},
             {SampleStore})

SpecTemplate == InitTemplate /\ [][NextNetscape]_vars

\* "-i mozplace PROFILEDIR" on any store of at most MaxBookmarkRows bookmark rows.
MozArgs ==
    {a \in ParsedArgs :
        /\ a.browser = NoArg /\ a.input_format = "mozplace"
        /\ ~a.search_output /\ ~a.bookmark_output /\ ~a.quickmark_output
        /\ ~a.oldconfig /\ ~a.import_bookmarks /\ ~a.import_keywords}

InitMoz == InitWith(MozArgs, {SampleHtml}, Stores)

NextMoz ==
    \/ GetArgs \/ Construct
    \/ MozConnect \/ MozQuery1 \/ MozRow1 \/ MozQuery2 \/ MozRow2 \/ Finalize
    \/ Render

SpecMoz == InitMoz /\ [][NextMoz]_vars

(* =============================== claims =============================== *)
ReadDone == pc \in {"render", "done"}

\* The first anchor of the given kind inserted under the given key.
KindOf(tag) ==
    CASE tag["href"] = None -> "skip"
      [] tag["href"] # None /\ tag["shortcuturl"] = None -> "bookmark"
      [] tag["href"] # None /\ tag["shortcuturl"] # None
            /\ Contains(tag["href"][1], Marker) -> "searchengine"
      [] OTHER -> "keyword"

IsFirstOf(i, kind, key(_)) ==
    /\ KindOf(tags[i]) = kind
    /\ \A j \in 1..(i - 1) :
          KindOf(tags[j]) = kind => key(tags[j]) # key(tags[i])

HrefOf(tag) == tag["href"][1]
ShortcutOf(tag) == tag["shortcuturl"][1]

(* C2: after NetscapeImporter.read, each of Bookmarks, Keywords and        *)
(* SearchEngines holds, for every key, the value of the first anchor       *)
(* inserted under that key; and print_bookmarks with bookmarks included    *)
(* emits, for a URL that no printed keyword points to, exactly one line,   *)
(* carrying the title of the first anchor with that URL.                   *)
NetscapeFirstWins ==
    ReadDone =>
      \A i \in 1..Len(tags) :
        /\ IsFirstOf(i, "bookmark", HrefOf) =>
             /\ HasKey(bookmarks, HrefOf(tags[i]))
             /\ Get(bookmarks, HrefOf(tags[i])) = tags[i]["string"]
             /\ Cardinality({n \in 1..Len(bookmarks) :
                               bookmarks[n][1] = HrefOf(tags[i])}) = 1
             /\ (/\ pc = "done" /\ args.import_bookmarks
                 /\ (args.import_keywords =>
                        \A n \in 1..Len(keywords) :
                            keywords[n][2] # HrefOf(tags[i])))
                  => /\ Cardinality({n \in 1..Len(out) :
                                       out[n][2] = HrefOf(tags[i])}) = 1
                     /\ \E n \in 1..Len(out) :
                          out[n] = <<"print", HrefOf(tags[i]),
                                     str(tags[i]["string"])>>
        /\ IsFirstOf(i, "keyword", ShortcutOf) =>
             /\ HasKey(keywords, ShortcutOf(tags[i]))
             /\ Get(keywords, ShortcutOf(tags[i])) = HrefOf(tags[i])
             /\ Cardinality({n \in 1..Len(keywords) :
                               keywords[n][1] = ShortcutOf(tags[i])}) = 1
        /\ IsFirstOf(i, "searchengine", ShortcutOf) =>
             /\ HasKey(searchengines, ShortcutOf(tags[i]))
             /\ Get(searchengines, ShortcutOf(tags[i]))
                  = Replace(Replace(Replace(HrefOf(tags[i]),
                                <<"{">>, <<"{", "{">>),
                                <<"}">>, <<"}", "}">>), Marker, Placeholder)
             /\ Cardinality({n \in 1..Len(searchengines) :
                               searchengines[n][1] = ShortcutOf(tags[i])}) = 1

NetscapeFirstWinsWitness ==
    /\ pc = "done"
    /\ tags = <<Anchor(Some(<<"a">>), None, Some(<<"A">>)),
                Anchor(Some(<<"a">>), None, Some(<<"B">>))>>
    /\ out = <<<<"print", <<"a">>, <<"A">>>>>>

\* The items of d are those of e, with at most an item for key k added.
OnlyAdds(d, e, k) ==
    /\ HasKey(e, k)
    /\ \A key \in Keys(e) : key \in Keys(d) \/ key = k
    /\ \A key \in Keys(d) : HasKey(e, key) /\ Get(e, key) = Get(d, key)

ClassifiedStep ==
    pc = "tags" =>
      LET tag == tags[idx]
          href == tag["href"]
          shortcut == tag["shortcuturl"]
      IN  /\ (href # None /\ shortcut # None /\ Contains(href[1], Marker)) =>
                /\ bookmarks' = bookmarks /\ keywords' = keywords
                /\ OnlyAdds(searchengines, searchengines', shortcut[1])
          /\ (href # None /\ shortcut # None /\ ~Contains(href[1], Marker)) =>
                /\ bookmarks' = bookmarks /\ searchengines' = searchengines
                /\ OnlyAdds(keywords, keywords', shortcut[1])
          /\ (href # None /\ shortcut = None) =>
                /\ keywords' = keywords /\ searchengines' = searchengines
                /\ OnlyAdds(bookmarks, bookmarks', href[1])
          /\ href = None =>
                /\ bookmarks' = bookmarks /\ keywords' = keywords
                /\ searchengines' = searchengines

(* C3: every anchor NetscapeImporter.read processes changes at most one    *)
(* mapping: SearchEngines under the shortcut when href and shortcuturl are *)
(* present and href contains %s, Keywords when they are present and href   *)
(* has no %s, Bookmarks under the URL when only href is present, none when *)
(* href is missing; and no Keywords value ever contains %s.                *)
NetscapeClassification ==
    /\ [][ClassifiedStep]_vars
    /\ [](\A n \in 1..Len(keywords) : ~Contains(keywords[n][2], Marker))

NetscapeClassificationWitness ==
    /\ pc = "done"
    /\ Len(tags) = 2
    /\ Len(searchengines) = 1 /\ Len(keywords) = 1 /\ bookmarks = <<>>

(* ---- str.format's reading of a template, left to right ---- *)
RECURSIVE Scan(_, _)
Scan(t, acc) ==
    IF t = <<>> THEN acc
    ELSE IF IsPrefix(<<"{", "{">>, t)
         THEN Scan(SubSeq(t, 3, Len(t)),
                   [acc EXCEPT !.open = @ + 1, !.text = @ \o <<"{">>])
    ELSE IF IsPrefix(<<"}", "}">>, t)
         THEN Scan(SubSeq(t, 3, Len(t)),
                   [acc EXCEPT !.close = @ + 1, !.text = @ \o <<"}">>])
    ELSE IF IsPrefix(Placeholder, t)
         THEN Scan(SubSeq(t, 3, Len(t)),
                   [acc EXCEPT !.holes = @ + 1, !.text = @ \o Marker])
    ELSE IF Head(t) \in {"{", "}"}
         THEN Scan(Tail(t), [acc EXCEPT !.stray = @ + 1])
    ELSE Scan(Tail(t), [acc EXCEPT !.text = @ \o <<Head(t)>>])

Scanned(t) ==
    Scan(t, [open |-> 0, close |-> 0, holes |-> 0, stray |-> 0, text |-> <<>>])

Count(s, c) == Cardinality({i \in 1..Len(s) : s[i] = c})

(* C4: for every URL containing %s, the stored template has every original *)
(* { and } doubled and exactly one single-brace pair, the placeholder {};  *)
(* putting %s back into the placeholder and collapsing the doubled braces  *)
(* gives the original URL.                                                 *)
TemplateOnePlaceholder ==
    (pc = "done" /\ Contains(HrefOf(tags[1]), Marker)) =>
       LET url == HrefOf(tags[1])
           t == Scanned(Get(searchengines, <<"g">>))
       IN  /\ t.stray = 0
           /\ t.open = Count(url, "{") /\ t.close = Count(url, "}")
           /\ t.holes = 1
           /\ t.text = url

\* Row i is the first row of the sequence carrying its key among the rows
\* that satisfy the filter.
FirstRow(rs, i, keyAt, filter(_)) ==
    /\ filter(rs[i])
    /\ \A j \in 1..(i - 1) : filter(rs[j]) => rs[j][keyAt] # rs[i][keyAt]

IsSearchRow(r) == Contains(r[2], Marker)
IsKeywordRow(r) == ~Contains(r[2], Marker)
AnyRow(r) == TRUE

(* C1: after MozPlaceImporter.read, when two rows of a query carry the     *)
(* same key for the same mapping (url for Bookmarks, keyword for Keywords  *)
(* and for SearchEngines), the mapping holds the value of the first such   *)
(* row.                                                                    *)
MozFirstWriteWins ==
    ReadDone =>
      /\ \A i \in 1..Len(rows1) :
            FirstRow(rows1, i, 2, AnyRow) =>
               HasKey(bookmarks, rows1[i][2])
               /\ Get(bookmarks, rows1[i][2]) = rows1[i][1]
      /\ \A i \in 1..Len(rows2) :
            /\ FirstRow(rows2, i, 1, IsKeywordRow) =>
                  HasKey(keywords, rows2[i][1])
                  /\ Get(keywords, rows2[i][1]) = rows2[i][2]
            /\ FirstRow(rows2, i, 1, IsSearchRow) =>
                  HasKey(searchengines, rows2[i][1])
                  /\ Get(searchengines, rows2[i][1])
                       = Replace(dumb_search_escape(rows2[i][2]),
                                 Marker, Placeholder)

Url(p) == db.moz_places[p]
Bookmarked(p) ==
    \E j \in 1..Len(db.moz_bookmarks) : db.moz_bookmarks[j].fk = p
Keyworded(p) == \E k \in db.moz_keywords : k[2] = p
IsInternal(u) == Len(u) > 0 /\ u[1] = "place:"

PlainBookmarksImported ==
    \A p \in PlaceIds :
       (Bookmarked(p) /\ ~Keyworded(p) /\ ~IsInternal(Url(p)))
          => HasKey(bookmarks, Url(p))

(* C5 as stated: every place associated with a keyword record contributes  *)
(* its (keyword, url) pair to SearchEngines (url contains %s) or Keywords  *)
(* (otherwise), whether or not a bookmark row references it, and its url   *)
(* is not added to Bookmarks; every bookmarked place with no keyword       *)
(* record and a url not starting with place: is in Bookmarks.              *)
MozPartitionAllKeywordPlaces ==
    ReadDone =>
      /\ \A k \in db.moz_keywords :
            /\ Contains(Url(k[2]), Marker) =>
                  HasKey(searchengines, k[1])
                  /\ Scanned(Get(searchengines, k[1])).text = Url(k[2])
            /\ ~Contains(Url(k[2]), Marker) =>
                  HasKey(keywords, k[1]) /\ Get(keywords, k[1]) = Url(k[2])
            /\ ~HasKey(bookmarks, Url(k[2]))
      /\ PlainBookmarksImported

\* The urls of the bookmarked places that carry keyword kw.
BookmarkedUrlsOf(kw) ==
    {Url(k[2]) : k \in {x \in db.moz_keywords : x[1] = kw /\ Bookmarked(x[2])}}

(* C5 amended: every place that is associated with a keyword record and    *)
(* is referenced by at least one bookmark row has its keyword as a key of  *)
(* SearchEngines (url contains %s) or of Keywords (otherwise), holding the *)
(* url of a bookmarked place that carries this keyword (its own url when   *)
(* no other such place shares the keyword), and its url is not added to    *)
(* Bookmarks; a keyword carried only by places that no bookmark row        *)
(* references is a key of neither mapping; every bookmarked place with no  *)
(* keyword record and a url not starting with place: is in Bookmarks.      *)
MozPartitionBookmarkedPlaces ==
    ReadDone =>
      /\ \A k \in db.moz_keywords :
            /\ (Bookmarked(k[2]) /\ Contains(Url(k[2]), Marker)) =>
                  /\ HasKey(searchengines, k[1])
                  /\ \E u \in BookmarkedUrlsOf(k[1]) :
                        /\ Contains(u, Marker)
                        /\ Scanned(Get(searchengines, k[1])).text = u
            /\ (Bookmarked(k[2]) /\ ~Contains(Url(k[2]), Marker)) =>
                  /\ HasKey(keywords, k[1])
                  /\ Get(keywords, k[1]) \in BookmarkedUrlsOf(k[1])
                  /\ ~Contains(Get(keywords, k[1]), Marker)
            /\ ~HasKey(bookmarks, Url(k[2]))
      /\ \A kw \in Keys(keywords) \cup Keys(searchengines) :
            BookmarkedUrlsOf(kw) # {}
      /\ PlainBookmarksImported

MozPartitionWitness ==
    /\ pc = "done"
    /\ Len(keywords) = 1 /\ searchengines = <<>>
    /\ \E k \in db.moz_keywords :
          ~Bookmarked(k[2]) /\ Contains(Url(k[2]), Marker)
    /\ \E k \in db.moz_keywords :
          Bookmarked(k[2]) /\ Get(keywords, k[1]) = Url(k[2])

NoOutputFlags(a) ==
    ~a.bookmark_output /\ ~a.quickmark_output /\ ~a.search_output /\ ~a.oldconfig
NoInclusionFlags(a) == ~a.import_bookmarks /\ ~a.import_keywords

BookmarkLines == {<<"print", bookmarks[n][1], str(bookmarks[n][2])>> :
                     n \in 1..Len(bookmarks)}
               \cup {<<"print", keywords[n][2], keywords[n][1]>> :
                     n \in 1..Len(keywords)}
QuickmarkLines == {<<"print", str(bookmarks[n][2]), bookmarks[n][1]>> :
                     n \in 1..Len(bookmarks)}
               \cup {<<"print", keywords[n][1], keywords[n][2]>> :
                     n \in 1..Len(keywords)}

(* C6: with no output-mode flag and no inclusion flag, main selects the    *)
(* quickmark renderer with both inclusion flags on and prints exactly one  *)
(* line "<title> <url>" per Bookmarks entry followed by one line           *)
(* "<keyword> <url>" per Keywords entry, in insertion order; whenever the  *)
(* bookmark or the quickmark renderer runs, under any flags, every line    *)
(* comes from a Bookmarks or a Keywords entry, never from SearchEngines.   *)
DefaultRunSeparation ==
    /\ (NoOutputFlags(argv) /\ NoInclusionFlags(argv)
          /\ pc \notin {"get_args", "failed"}) =>
          /\ args.quickmark_output /\ ~args.bookmark_output
          /\ args.import_bookmarks /\ args.import_keywords
    /\ (NoOutputFlags(argv) /\ NoInclusionFlags(argv) /\ pc = "done") =>
          /\ Len(out) = Len(bookmarks) + Len(keywords)
          /\ \A n \in 1..Len(bookmarks) :
                out[n] = <<"print", str(bookmarks[n][2]), bookmarks[n][1]>>
          /\ \A n \in 1..Len(keywords) :
                out[Len(bookmarks) + n]
                    = <<"print", keywords[n][1], keywords[n][2]>>
    /\ (pc = "done" /\ args.bookmark_output) =>
          /\ Len(out) <= Len(bookmarks) + Len(keywords)
          /\ \A n \in 1..Len(out) : out[n] \in BookmarkLines
    /\ (pc = "done" /\ ~args.bookmark_output /\ args.quickmark_output) =>
          /\ Len(out) <= Len(bookmarks) + Len(keywords)
          /\ \A n \in 1..Len(out) : out[n] \in QuickmarkLines

DefaultRunWitness ==
    /\ pc = "done"
    /\ NoOutputFlags(argv) /\ NoInclusionFlags(argv)
    /\ searchengines # <<>>
    /\ Len(out) = 2

(* C7: when the glob for the profile fragment of a browser that requires   *)
(* profile discovery matches no directory, the run ends in the fatal       *)
(* FileNotFoundError raised from the reader's constructor, and the places  *)
(* database is never opened and no renderer is invoked afterwards.         *)
ProfileNotFoundIsFatal ==
    probed.matches = 0 =>
       /\ argv.browser \in MozBrowsers
       /\ pc = "failed" /\ error = "FileNotFoundError"
       /\ ~dbOpen /\ ~fileOpen
       /\ rows1 = <<>> /\ rows2 = <<>> /\ out = <<>>

ProfileNotFoundWitness ==
    /\ probed.matches = 0
    /\ argv.browser = "firefox"
    /\ pc = "failed"

(* C8: when the selected format is Netscape HTML and the path names a      *)
(* readable file, the reader is constructed with that path unchanged and   *)
(* proceeds to read() without running locator logic or failing, both with  *)
(* no browser identifier and with a Netscape-family one (ie, chromium).    *)
HtmlPathUsedDirectly ==
    (/\ args.input_format = "netscape"
     /\ argv.browser \in NetscapeBrowsers \cup {NoArg}
     /\ pc \notin {"get_args", "construct"}) =>
        /\ path = argv.bookmarks
        /\ probed = NotProbed /\ root = None
        /\ error \in {NoArg, "OSError", "UnicodeDecodeError"}

(* C9: for both readers the storage resource (the HTML file handle, the    *)
(* sqlite connection) is released when read() completes or fails, so it is *)
(* closed before the first renderer line is emitted.                       *)
ResourceScopedToRead ==
    (pc \in {"render", "done", "failed"} \/ out # <<>>) => ~fileOpen /\ ~dbOpen

(* C10: on macOS the glob for the profile fragment runs under              *)
(* HOME/Library/Application Support/<dotless root> when that exists, and   *)
(* otherwise under the second candidate HOME/Library/<dotless root>; it    *)
(* never runs under bare HOME/Library.                                     *)
DarwinTriesBothCandidates ==
    (probed.platform = "darwin" /\ probed.matches >= 0) =>
       /\ root = Some(IF probed.exists = "yes"
                      THEN AppSupport(argv.browser)
                      ELSE SecondCandidate(argv.browser))
       /\ root # Some(Library)

====
